---- MODULE Spec2Model ----
(***************************************************************************)
(* Team content synchronisation (sync server, admin mutations, socket      *)
(* fan-out, client cache) and the live-call objection detection of the     *)
(* VendingPreneurs sales assistant.                                        *)
(*                                                                         *)
(* Time is a logical clock: `now` is the reading of the server/database    *)
(* clock, and every committed row write (INSERT / UPDATE ... NOW()) takes  *)
(* the next reading.  Timestamps are compared as integers.                 *)
(***************************************************************************)
EXTENDS Integers, Sequences, FiniteSets, TLC

VARIABLES
  now,               \* server / database clock
  nextId,            \* next primary key handed out by gen_random_uuid()
  db,                \* content tables: a set of rows, each tagged with its kind
  sockets,           \* server side of every socket.io connection
  connectedClients,  \* index.js connectedClients Map, as a set of entries
  inbox,             \* events emitted to a socket and not yet handled by its peer
  sync,              \* sync requests being served (GET /sync and sync:request)
  authToken,         \* client: electron-store authToken
  clientSockets,     \* client: the socket objects connectToServer has created
  socket,            \* client: the module variable `socket` (0 = null)
  contentStore,      \* client: the cache
  sessions,          \* the Gemini live sessions client.live.connect has been asked for
  isSessionActive,   \* gemini.js module state
  sessionRef,        \* geminiSessionRef.current (0 = null)
  messageBuffer,     \* gemini.js module state: the suggestion being received
  currentTranscription, \* gemini.js module state: the input transcribed in this turn
  rendererLog,       \* the danger-alert messages sent to the renderer since
                     \* gemini-connect last started a session
  analyzerInput,     \* app.js: the analyzer textarea's value, a sequence of lines
  analyzerResults,   \* app.js: what analyzeCall rendered into the results div
  searchIndex,       \* app.js: this.searchIndex, the objection entries of buildSearchIndex
  invitation,        \* auth.js: the status of the invitations row of the one invite code
  users,             \* auth.js: the ids of the (active) rows of the users table
  redeems,           \* auth.js: the POST /redeem requests being handled
  awaiting           \* admin.js: the PUT handlers whose UPDATE has committed and whose
                     \* `await db.query` has not yet resumed them: the event each will send

authVars   == <<invitation, users, redeems>>
serverVars == <<now, nextId, db, sockets, connectedClients, inbox, sync, awaiting, authVars>>
clientVars == <<authToken, clientSockets, socket, contentStore>>
callVars   == <<sessions, isSessionActive, sessionRef, messageBuffer, currentTranscription,
               rendererLog>>
uiVars     == <<analyzerInput, analyzerResults, searchIndex>>
vars       == <<serverVars, clientVars, callVars, uiVars>>

----------------------------------------------------------------------------
(* Bounds of the model *)

MaxTime    == 2      \* clock readings 0..MaxTime
MaxIds     == 1      \* rows ever inserted
NumSockets == 2      \* socket.io connections
NumSlots   == 1      \* sync requests served at the same time
MaxSince   == 1      \* `since` parameters 0..MaxSince
MaxInbox   == 1      \* events queued on one socket
NumSessions == 2     \* Gemini sessions alive at the same time
MaxText    == 3      \* transcribed fragments in one turn
MaxBuf     == 1      \* suggestion fragments in one turn
MaxLog     == 3      \* renderer messages kept in rendererLog
MaxLines   == 3      \* lines typed into the analyzer
MaxWords   == 2      \* words in one analyzer line
MaxRawLines == 2     \* lines of the textarea when the analysis starts (SpecMatch)
MaxRawWords == 3     \* words in one of those lines
NumRedeems == 3      \* POST /redeem requests handled at the same time
MaxAwait   == 2      \* PUT handlers waiting for their UPDATE to return

Teams     == {1, 2}
Kinds     == {"objection", "playbook", "testimonial", "pattern"}
KindOrder == <<"objection", "playbook", "testimonial", "pattern">>
\* the kinds the admin requests of SpecServer write: the objection routes, and one of the
\* three kinds (playbook, testimonial, pattern) whose server routes are the same code
ServerKinds == {"objection", "pattern"}
SocketIds == 1..NumSockets
Slots     == 1..NumSlots
Ids       == 1..MaxIds
None      == -1      \* an absent query parameter / JS undefined `since`

----------------------------------------------------------------------------
(* Tokens.  jwt.verify accepts a token iff its signature is good and it    *)
(* has not expired; the payload of a rejected token is never trusted.      *)

Token(sig, u, t, r) == [sig |-> sig, userId |-> u, teamId |-> t, role |-> r]
NoToken     == Token("absent", 0, 0, "none")
AdminTokens == {Token("ok", 1, 1, "admin"), Token("ok", 2, 2, "admin")}
RepTokens   == {}
BadTokens   == {Token("expired", 1, 1, "admin")}
Tokens      == AdminTokens \cup RepTokens \cup BadTokens \cup {NoToken}

JwtVerify(token) == token.sig = "ok"

----------------------------------------------------------------------------
(* Content store rows *)

Row(k, i, t, at, act) ==
  [kind |-> k, id |-> i, team_id |-> t, updated_at |-> at, is_active |-> act]

RECURSIVE SortById(_)
SortById(S) ==
  IF S = {} THEN <<>>
  ELSE LET r == CHOOSE x \in S : \A y \in S : x.id <= y.id
       IN <<r>> \o SortById(S \ {r})

Range(s) == {s[i] : i \in 1..Len(s)}

\* content.js GET /sync, one SELECT of the handler
HttpSelect(k, teamId, since) ==
  SortById({r \in db : /\ r.kind = k
                       /\ r.team_id = teamId
                       /\ r.is_active = TRUE
                       /\ (since # None => r.updated_at > since)})

\* index.js getTeamContent, one SELECT
SocketSelect(k, teamId, since) ==
  SortById({r \in db : /\ r.kind = k
                       /\ r.team_id = teamId
                       /\ (since # None => r.updated_at > since)})

EmptyContent == [k \in Kinds |-> <<>>]

\* a sync request being served: the handler's locals and its position
IdleSlot ==
  [pc |-> "idle", path |-> "none", status |-> 0, token |-> NoToken, teamId |-> 0,
   since |-> None, syncedAt |-> 0, step |-> 0, content |-> EmptyContent,
   sock |-> 0, owner |-> "none", incremental |-> FALSE]

----------------------------------------------------------------------------
(* Initial state *)

ClosedSocket ==
  [st |-> "closed", token |-> NoToken, userId |-> 0, teamId |-> 0, rooms |-> {}]

\* the users the tokens of the model name: the two admins and the invited rep
UserIds == {1, 2, 3}
RedeemIds == 1..NumRedeems

\* a POST /redeem request: where its handler stands, and how it was answered
IdleRedeem == [pc |-> "idle", answer |-> "none"]

InitServer ==
  /\ now = 0
  /\ nextId = 1
  /\ db = {}
  /\ sockets = [s \in SocketIds |-> ClosedSocket]
  /\ connectedClients = {}
  /\ inbox = [s \in SocketIds |-> <<>>]
  /\ sync = [sl \in Slots |-> IdleSlot]
  /\ awaiting = {}
  /\ invitation = "pending"
  /\ users = UserIds
  /\ redeems = [r \in RedeemIds |-> IdleRedeem]

\* a JavaScript value that is null, undefined or a timestamp
JsNull      == [tag |-> "null", t |-> 0]
JsUndefined == [tag |-> "undefined", t |-> 0]
JsTime(t)   == [tag |-> "time", t |-> t]

\* contentStore; the lists objections, playbooks, testimonials, patterns are the
\* fields objection, playbook, testimonial, pattern
EmptyStore ==
  [objection |-> <<>>, playbook |-> <<>>, testimonial |-> <<>>, pattern |-> <<>>,
   lastSync |-> JsNull]

NoClientSocket == [st |-> "none", token |-> NoToken]

InitClient ==
  /\ authToken = NoToken
  /\ clientSockets = [s \in SocketIds |-> NoClientSocket]
  /\ socket = 0
  /\ contentStore = EmptyStore

SessionIds == 1..NumSessions

\* what the results div holds before analyzeCall has rendered anything
NoResults ==
  [shown |-> "nothing", count |-> 0, matched |-> <<>>, categories |-> {},
   dangerAlert |-> FALSE, threeAlert |-> FALSE]

\* the objection entries buildSearchIndex pushes for the objection data of the model, in
\* the order of the data: `text` is the set of words the entry's searchText includes,
\* `rank` the rank of the objection (item.data.rank)
SearchIndex ==
  << [type |-> "objection", id |-> "capital", category |-> "price", rank |-> 1,
      text |-> {"capital"}],
     [type |-> "objection", id |-> "spouse", category |-> "authority", rank |-> 2,
      text |-> {"spouse"}],
     [type |-> "objection", id |-> "think-it-over", category |-> "timing", rank |-> 3,
      text |-> {"think"}] >>

InitUi ==
  /\ analyzerInput = <<>>
  /\ analyzerResults = NoResults
  /\ searchIndex = SearchIndex

InitCall ==
  /\ sessions = [g \in SessionIds |-> "none"]
  /\ isSessionActive = FALSE
  /\ sessionRef = 0
  /\ messageBuffer = <<>>
  /\ currentTranscription = <<>>
  /\ rendererLog = <<>>

----------------------------------------------------------------------------
(* Sync server: socket admission *)

\* a faulty middleware: it decodes the token without verifying it
IoUseNoVerify(token) ==
  IF token.sig = "absent" THEN "Authentication required" ELSE "ok"

\* index.js io.use: "ok", or the error passed to next()
IoUse(token) ==
  IF token.sig = "absent" THEN "Authentication required"
  ELSE IF JwtVerify(token) THEN "ok"
  ELSE "Invalid token"

\* connectedClients.set(userId, {...})
MapSet(m, u, s, t) ==
  {e \in m : e.userId # u} \cup {[userId |-> u, socketId |-> s, teamId |-> t]}

\* an emitted event: `row` holds the payload row (none for deleted: the payload is {id});
\* `origin` is the team of the request that caused it
Event(k, action, i, rows, teamId) ==
  [kind |-> k, action |-> action, id |-> i, row |-> rows, origin |-> teamId]

\* the packet that tells an admitted peer it is connected (its 'connect' event)
ConnectEv(teamId) == Event("socket", "connect", 0, <<>>, teamId)

\* a handshake on connection s: the middleware, then (if it passed) the connection
\* handler: track the user, join the team room
Admit(s, token) ==
  /\ sockets[s].st \in {"closed", "rejected"}
  /\ IF IoUse(token) = "ok"
     THEN /\ sockets' = [sockets EXCEPT ![s] =
                 [st |-> "connected", token |-> token, userId |-> token.userId,
                  teamId |-> token.teamId, rooms |-> {token.teamId}]]
          /\ connectedClients' = MapSet(connectedClients, token.userId, s, token.teamId)
          /\ inbox' = [inbox EXCEPT ![s] = <<ConnectEv(token.teamId)>>]
     ELSE /\ sockets' = [sockets EXCEPT ![s] =
                 [st |-> "rejected", token |-> token, userId |-> 0, teamId |-> 0, rooms |-> {}]]
          /\ UNCHANGED connectedClients
          /\ inbox' = [inbox EXCEPT ![s] = <<>>]

\* a peer other than the client opens a connection
SocketConnect(s, token) ==
  /\ clientSockets[s].st = "none"
  /\ Admit(s, token)
  /\ UNCHANGED <<now, nextId, db, sync, clientVars, callVars, uiVars, awaiting, authVars>>

\* the connection s ends; socket.on('disconnect'): the server forgets the user, the
\* socket leaves its rooms, and nothing more reaches the peer
Drop(s) ==
  /\ connectedClients' = IF sockets[s].st = "connected"
                         THEN {e \in connectedClients : e.userId # sockets[s].userId}
                         ELSE connectedClients
  /\ sockets' = [sockets EXCEPT ![s] = ClosedSocket]
  /\ inbox' = [inbox EXCEPT ![s] = <<>>]
  /\ sync' = [sl \in Slots |-> IF sync[sl].sock = s THEN [sync[sl] EXCEPT !.sock = 0]
                                ELSE sync[sl]]

\* a peer other than the client disconnects
SocketDisconnect(s) ==
  /\ clientSockets[s].st = "none"
  /\ sockets[s].st = "connected"
  /\ Drop(s)
  /\ UNCHANGED <<now, nextId, db, clientVars, callVars, uiVars, awaiting, authVars>>

----------------------------------------------------------------------------
(* Sync server: admin mutations and fan-out *)

\* admin.js authenticateAdmin
AuthenticateAdmin(token) ==
  token.sig # "absent" /\ JwtVerify(token) /\ token.role = "admin"


\* index.js broadcastToTeam: io.to(`team:${teamId}`).emit(event, data)
RoomMembers(teamId) == {s \in SocketIds : teamId \in sockets[s].rooms}

\* a faulty fan-out: io.emit(event, data), to every connected socket
BroadcastToAll(teamId, ev) ==
  [s \in SocketIds |-> IF sockets[s].st = "connected" THEN Append(inbox[s], ev) ELSE inbox[s]]

BroadcastToTeam(teamId, ev) ==
  [s \in SocketIds |-> IF s \in RoomMembers(teamId) THEN Append(inbox[s], ev) ELSE inbox[s]]

\* every socket of the room can queue one more event
RoomHasSpace(teamId) == \A s \in RoomMembers(teamId) : Len(inbox[s]) < MaxInbox

\* POST /<kind>: INSERT ... RETURNING *, then broadcast `created` with the row
AdminCreate(token, k) ==
  /\ AuthenticateAdmin(token)
  /\ nextId <= MaxIds /\ now < MaxTime
  /\ RoomHasSpace(token.teamId)
  /\ LET row == Row(k, nextId, token.teamId, now + 1, TRUE)
     IN /\ db' = db \cup {row}
        /\ inbox' = BroadcastToTeam(token.teamId,
                                    Event(k, "created", nextId, <<row>>, token.teamId))
  /\ nextId' = nextId + 1
  /\ now' = now + 1
  /\ UNCHANGED <<sockets, connectedClients, sync, clientVars, callVars, uiVars, awaiting, authVars>>

\* PUT /<kind>/:id: UPDATE ... SET ..., is_active = COALESCE($n, is_active),
\* updated_at = NOW() WHERE id AND team_id RETURNING *; 404 and no broadcast when
\* no row matched, else broadcast `updated` with the row
AdminUpdate(token, k, i, isActive) ==
  /\ AuthenticateAdmin(token)
  /\ LET hit == {r \in db : r.kind = k /\ r.id = i /\ r.team_id = token.teamId}
     IN IF hit = {}
        THEN UNCHANGED <<db, inbox, now>>
        ELSE /\ now < MaxTime
             /\ RoomHasSpace(token.teamId)
             /\ LET old == CHOOSE r \in hit : TRUE
                    act == IF isActive = "null" THEN old.is_active ELSE (isActive = "true")
                    row == Row(k, i, token.teamId, now + 1, act)
                IN /\ db' = (db \ hit) \cup {row}
                   /\ inbox' = BroadcastToTeam(token.teamId,
                                               Event(k, "updated", i, <<row>>, token.teamId))
             /\ now' = now + 1
  /\ UNCHANGED <<nextId, sockets, connectedClients, sync, clientVars, callVars, uiVars, awaiting, authVars>>

\* DELETE /<kind>/:id: UPDATE ... SET is_active = FALSE, updated_at = NOW() WHERE id AND
\* team_id; `deleted` {id} is broadcast whether or not a row matched
AdminDelete(token, k, i) ==
  /\ AuthenticateAdmin(token)
  /\ RoomHasSpace(token.teamId)
  /\ LET hit == {r \in db : r.kind = k /\ r.id = i /\ r.team_id = token.teamId}
     IN IF hit = {}
        THEN UNCHANGED <<db, now>>
        ELSE /\ now < MaxTime
             /\ db' = (db \ hit) \cup {Row(k, i, token.teamId, now + 1, FALSE)}
             /\ now' = now + 1
  /\ inbox' = BroadcastToTeam(token.teamId, Event(k, "deleted", i, <<>>, token.teamId))
  /\ UNCHANGED <<nextId, sockets, connectedClients, sync, clientVars, callVars, uiVars, awaiting, authVars>>

----------------------------------------------------------------------------
(* Sync server: serving a sync request *)

\* content.js authenticate
Authenticate(token) == token.sig # "absent" /\ JwtVerify(token)

\* GET /api/content/sync?since=...: authenticate, then take syncedAt; the SELECTs follow
HttpRequest(sl, token, since, owner, incremental) ==
  /\ sync[sl].pc = "idle"
  /\ sync' = [sync EXCEPT ![sl] =
       IF Authenticate(token)
       THEN [IdleSlot EXCEPT !.pc = "query", !.path = "http", !.token = token,
                             !.teamId = token.teamId, !.since = since, !.syncedAt = now,
                             !.owner = owner, !.incremental = incremental]
       ELSE [IdleSlot EXCEPT !.pc = "done", !.path = "http", !.status = 401,
                             !.owner = owner, !.incremental = incremental]]

\* a caller of the HTTP API other than the client
HttpSyncRequest(sl, token, since) ==
  /\ HttpRequest(sl, token, since, "api", FALSE)
  /\ UNCHANGED <<now, nextId, db, sockets, connectedClients, inbox, clientVars, callVars, uiVars, awaiting, authVars>>

\* socket.on('sync:request'): registered by the connection handler only
SocketSyncRequest(sl, s, lastSync) ==
  /\ sync[sl].pc = "idle"
  /\ sockets[s].st = "connected"
  /\ sync' = [sync EXCEPT ![sl] =
       [IdleSlot EXCEPT !.pc = "query", !.path = "socket", !.token = sockets[s].token,
                        !.teamId = sockets[s].teamId, !.since = lastSync,
                        !.syncedAt = now, !.sock = s, !.owner = "api"]]
  /\ UNCHANGED <<now, nextId, db, sockets, connectedClients, inbox, clientVars, callVars, uiVars, awaiting, authVars>>

Select(path, k, teamId, since) ==
  IF path = "http" THEN HttpSelect(k, teamId, since) ELSE SocketSelect(k, teamId, since)

\* the handler's SELECTs, one per kind, and its response
SyncQuery(sl) ==
  /\ sync[sl].pc = "query"
  /\ LET r == sync[sl]
     IN sync' = [sync EXCEPT ![sl] =
          [r EXCEPT !.content = [k \in Kinds |-> Select(r.path, k, r.teamId, r.since)],
                    !.step = Len(KindOrder),
                    !.pc = "done",
                    !.status = 200]]
  /\ UNCHANGED <<now, nextId, db, sockets, connectedClients, inbox, clientVars, callVars, uiVars, awaiting, authVars>>

\* a SELECT of GET /sync throws: the handler's catch answers 500
SyncError(sl) ==
  /\ sync[sl].pc = "query"
  /\ sync[sl].path = "http"
  /\ sync' = [sync EXCEPT ![sl] = [@ EXCEPT !.pc = "done", !.status = 500]]
  /\ UNCHANGED <<now, nextId, db, sockets, connectedClients, inbox, clientVars, callVars, uiVars, awaiting, authVars>>

\* the caller of the API takes the response
ApiSyncReturn(sl) ==
  /\ sync[sl].pc = "done"
  /\ sync[sl].owner = "api"
  /\ sync' = [sync EXCEPT ![sl] = IdleSlot]
  /\ UNCHANGED <<now, nextId, db, sockets, connectedClients, inbox, clientVars, callVars, uiVars, awaiting, authVars>>

\* POST /broadcast: tell the team's clients to sync again
AdminRefresh(token) ==
  /\ AuthenticateAdmin(token)
  /\ RoomHasSpace(token.teamId)
  /\ inbox' = BroadcastToTeam(token.teamId, Event("refresh", "refresh", 0, <<>>, token.teamId))
  /\ UNCHANGED <<now, nextId, db, sockets, connectedClients, sync, clientVars, callVars, uiVars, awaiting, authVars>>

\* a peer other than the client handles the next event queued for it
SocketReceive(s) ==
  /\ clientSockets[s].st = "none"
  /\ inbox[s] # <<>>
  /\ inbox' = [inbox EXCEPT ![s] = Tail(inbox[s])]
  /\ UNCHANGED <<now, nextId, db, sockets, connectedClients, sync, clientVars, callVars, uiVars, awaiting, authVars>>

Sinces == {None} \cup 0..MaxSince

NextServer ==
  \/ \E s \in SocketIds, token \in Tokens : SocketConnect(s, token)
  \/ \E s \in SocketIds : SocketDisconnect(s)
  \/ \E s \in SocketIds : SocketReceive(s)
  \/ \E token \in Tokens, k \in ServerKinds : AdminCreate(token, k)
  \/ \E token \in Tokens, k \in ServerKinds, i \in Ids, a \in {"null", "true", "false"} :
        AdminUpdate(token, k, i, a)
  \/ \E token \in Tokens, k \in ServerKinds, i \in Ids : AdminDelete(token, k, i)
  \/ \E token \in Tokens : AdminRefresh(token)
  \/ \E sl \in Slots, token \in Tokens, since \in Sinces :
        HttpSyncRequest(sl, token, since)
  \/ \E sl \in Slots, s \in SocketIds, since \in Sinces : SocketSyncRequest(sl, s, since)
  \/ \E sl \in Slots : SyncQuery(sl)
  \/ \E sl \in Slots : SyncError(sl)
  \/ \E sl \in Slots : ApiSyncReturn(sl)

InitAll == InitServer /\ InitClient /\ InitCall /\ InitUi

SpecServer == InitAll /\ [][NextServer]_vars

----------------------------------------------------------------------------
(* Sync server: POST /api/auth/redeem.  Every `await db...` of the handler   *)
(* is a point where other requests are handled.                             *)

\* the user the invitation's email belongs to
InviteUser == 3

\* what POST /redeem leaves alone: everything but the invitations and users tables
OutsideRedeem ==
  UNCHANGED <<now, nextId, db, sockets, connectedClients, inbox, sync, awaiting,
              clientVars, callVars, uiVars>>

\* SELECT * FROM invitations WHERE code = $1 AND status = 'pending' AND expires_at >
\* NOW(); 400 'Invalid or expired invite code' when there is no row
RedeemFindInvite(r) ==
  /\ redeems[r].pc = "idle"
  /\ redeems' = [redeems EXCEPT ![r] =
       IF invitation = "pending"
       THEN [@ EXCEPT !.pc = "invite"]
       ELSE [pc |-> "done", answer |-> "invalid"]]
  /\ UNCHANGED <<invitation, users>>
  /\ OutsideRedeem

\* SELECT * FROM users WHERE email = $1
RedeemFindUser(r) ==
  /\ redeems[r].pc = "invite"
  /\ redeems' = [redeems EXCEPT ![r].pc = IF InviteUser \in users THEN "update" ELSE "insert"]
  /\ UNCHANGED <<invitation, users>>
  /\ OutsideRedeem

\* UPDATE users SET team_id, role, is_active = TRUE for the user found, or INSERT INTO
\* users: email is UNIQUE, so the INSERT throws when the row exists by now, and the
\* catch answers 500 'Failed to redeem invite'
RedeemWriteUser(r) ==
  /\ redeems[r].pc \in {"update", "insert"}
  /\ IF redeems[r].pc = "insert" /\ InviteUser \in users
     THEN /\ redeems' = [redeems EXCEPT ![r] = [pc |-> "done", answer |-> "error"]]
          /\ UNCHANGED users
     ELSE /\ redeems' = [redeems EXCEPT ![r].pc = "mark"]
          /\ users' = users \cup {InviteUser}
  /\ UNCHANGED invitation
  /\ OutsideRedeem

\* UPDATE invitations SET status = 'redeemed' WHERE id = $1, then jwt.sign and the
\* response with the token
RedeemMark(r) ==
  /\ redeems[r].pc = "mark"
  /\ invitation' = "redeemed"
  /\ redeems' = [redeems EXCEPT ![r] = [pc |-> "done", answer |-> "token"]]
  /\ UNCHANGED users
  /\ OutsideRedeem

\* requests for one invite code, whose email may or may not belong to a user already
InitRedeem ==
  /\ InitClient /\ InitCall /\ InitUi
  /\ now = 0
  /\ nextId = 1
  /\ db = {}
  /\ sockets = [s \in SocketIds |-> ClosedSocket]
  /\ connectedClients = {}
  /\ inbox = [s \in SocketIds |-> <<>>]
  /\ sync = [sl \in Slots |-> IdleSlot]
  /\ awaiting = {}
  /\ invitation \in {"pending", "redeemed"}
  /\ users \in {UserIds \ {InviteUser}, UserIds}
  /\ redeems = [r \in RedeemIds |-> IdleRedeem]

NextRedeem ==
  \/ \E r \in RedeemIds : RedeemFindInvite(r)
  \/ \E r \in RedeemIds : RedeemFindUser(r)
  \/ \E r \in RedeemIds : RedeemWriteUser(r)
  \/ \E r \in RedeemIds : RedeemMark(r)

SpecRedeem == InitRedeem /\ [][NextRedeem]_vars

----------------------------------------------------------------------------
(* Client: serverSync (connection, event handlers, syncContent)            *)

\* the tokens POST /redeem hands to the client
RedeemTokens == {Token("ok", 3, 1, "rep")}

\* property access on a parsed JSON body
Get(body, field) == IF field \in DOMAIN body THEN body[field] ELSE JsUndefined

\* JavaScript truthiness of a value that is null, undefined or a timestamp string
Truthy(v) == v.tag = "time"

\* res.json(content) of GET /sync, as the client parses it
ResponseBody(r) ==
  [objection |-> r.content["objection"], playbook |-> r.content["playbook"],
   testimonial |-> r.content["testimonial"], pattern |-> r.content["pattern"],
   syncedAt |-> JsTime(r.syncedAt)]

\* Array.prototype.findIndex(o => o.id === id), 1-based; 0 when there is none
FindIndex(list, id) ==
  IF \E i \in 1..Len(list) : list[i].id = id
  THEN CHOOSE i \in 1..Len(list) :
         /\ list[i].id = id
         /\ \A j \in 1..(i - 1) : list[j].id # id
  ELSE 0

\* the kinds with content:<kind>:updated and content:<kind>:deleted handlers
HandledKinds == {"objection", "playbook", "testimonial"}

\* the content:<kind>:<action> handlers; an event without a handler is dropped
ApplyEvent(store, e) ==
  IF e.kind \in Kinds /\ e.action = "created"
  THEN [store EXCEPT ![e.kind] = Append(@, e.row[1])]
  ELSE IF e.kind \in HandledKinds /\ e.action = "updated"
  THEN LET idx == FindIndex(store[e.kind], e.row[1].id)
       IN IF idx > 0 THEN [store EXCEPT ![e.kind][idx] = e.row[1]] ELSE store
  ELSE IF e.kind \in HandledKinds /\ e.action = "deleted"
  THEN [store EXCEPT ![e.kind] = SelectSeq(@, LAMBDA o : o.id # e.id)]
  ELSE store

\* syncContent, the forEach of the incremental branch
RECURSIVE MergeRows(_, _)
MergeRows(list, rows) ==
  IF rows = <<>> THEN list
  ELSE LET obj == Head(rows)
           idx == FindIndex(list, obj.id)
       IN MergeRows(IF idx > 0 THEN [list EXCEPT ![idx] = obj] ELSE Append(list, obj),
                    Tail(rows))

\* syncContent after response.json(): replace everything or merge, then set lastSync
ApplySync(store, data, incremental) ==
  LET lists ==
        IF Truthy(Get(data, "fullSync")) \/ ~incremental
        THEN [store EXCEPT !.objection = data.objection, !.playbook = data.playbook,
                           !.testimonial = data.testimonial, !.pattern = data.pattern]
        ELSE [store EXCEPT !.objection = MergeRows(@, data.objection)]
  IN [lists EXCEPT !.lastSync = Get(data, "syncTimestamp")]

\* syncContent up to the fetch: the request it sends, if it sends one
StartSync(incremental) ==
  IF authToken = NoToken
  THEN UNCHANGED sync
  ELSE \E sl \in Slots :
         HttpRequest(sl, authToken,
                     IF incremental /\ Truthy(contentStore.lastSync)
                     THEN contentStore.lastSync.t ELSE None,
                     "client", incremental)

\* connectToServer with the stored token `token`: io() and the handshake it starts
ConnectToServerWith(token) ==
  IF token = NoToken \/ (socket # 0 /\ clientSockets[socket].st = "connected")
  THEN UNCHANGED <<socket, clientSockets, sockets, connectedClients, inbox>>
  ELSE \E s \in SocketIds :
         /\ clientSockets[s].st = "none"
         /\ \A s2 \in SocketIds : clientSockets[s2].st = "none" => s <= s2
         /\ Admit(s, token)
         /\ socket' = s
         /\ clientSockets' = [clientSockets EXCEPT ![s] =
              [st |-> IF IoUse(token) = "ok" THEN "connecting" ELSE "failed",
               token |-> token]]

\* ipc 'redeem-invite' succeeding: the token is stored, then connectToServer
RedeemInvite(token) ==
  /\ authToken' = token
  /\ ConnectToServerWith(token)
  /\ UNCHANGED <<now, nextId, db, sync, contentStore, callVars, uiVars, awaiting, authVars>>

\* ipc 'connect-server'
ConnectToServer ==
  /\ ConnectToServerWith(authToken)
  /\ UNCHANGED <<now, nextId, db, sync, authToken, contentStore, callVars, uiVars, awaiting, authVars>>

\* disconnectFromServer: socket.disconnect(), socket = null
DisconnectEffect ==
  IF socket = 0
  THEN UNCHANGED <<socket, clientSockets, sockets, connectedClients, inbox, sync>>
  ELSE /\ Drop(socket)
       /\ clientSockets' = [clientSockets EXCEPT ![socket] = NoClientSocket]
       /\ socket' = 0

\* ipc 'disconnect-server'
DisconnectFromServer ==
  /\ socket # 0
  /\ DisconnectEffect
  /\ UNCHANGED <<now, nextId, db, authToken, contentStore, callVars, uiVars, awaiting, authVars>>

\* ipc 'logout': disconnectFromServer, clearAuth
Logout ==
  /\ authToken # NoToken
  /\ DisconnectEffect
  /\ authToken' = NoToken
  /\ UNCHANGED <<now, nextId, db, contentStore, callVars, uiVars, awaiting, authVars>>

\* the connection of a client socket is lost; socket.io will reconnect it
ConnectionLost(s) ==
  /\ clientSockets[s].st \in {"connecting", "connected"}
  /\ Drop(s)
  /\ clientSockets' = [clientSockets EXCEPT ![s].st = "disconnected"]
  /\ UNCHANGED <<now, nextId, db, authToken, socket, contentStore, callVars, uiVars, awaiting, authVars>>

\* socket.io reconnects with the auth the socket was created with
Reconnect(s) ==
  /\ clientSockets[s].st = "disconnected"
  /\ Admit(s, clientSockets[s].token)
  /\ clientSockets' = [clientSockets EXCEPT ![s].st =
       IF IoUse(clientSockets[s].token) = "ok" THEN "connecting" ELSE "failed"]
  /\ UNCHANGED <<now, nextId, db, sync, authToken, socket, contentStore, callVars, uiVars, awaiting, authVars>>

\* a client socket handles the next event the server sent it
Deliver(s) ==
  /\ clientSockets[s].st \in {"connecting", "connected"}
  /\ inbox[s] # <<>>
  /\ LET e == Head(inbox[s])
     IN /\ inbox' = [inbox EXCEPT ![s] = Tail(@)]
        /\ IF e.kind = "socket"
           THEN /\ clientSockets' = [clientSockets EXCEPT ![s].st = "connected"]
                /\ StartSync(FALSE)
                /\ UNCHANGED contentStore
           ELSE IF e.kind = "refresh"
           THEN /\ StartSync(FALSE)
                /\ UNCHANGED <<clientSockets, contentStore>>
           ELSE /\ contentStore' = ApplyEvent(contentStore, e)
                /\ UNCHANGED <<clientSockets, sync>>
  /\ UNCHANGED <<now, nextId, db, sockets, connectedClients, authToken, socket, callVars, uiVars, awaiting, authVars>>

\* ipc 'sync-content' and the exported syncContent(incremental), up to the fetch
SyncContent(incremental) ==
  /\ authToken # NoToken
  /\ StartSync(incremental)
  /\ UNCHANGED <<now, nextId, db, sockets, connectedClients, inbox, clientVars, callVars, uiVars, awaiting, authVars>>

\* the fetch of syncContent rejects (network error), or response.json() throws on a
\* body that is not JSON: the catch is reached with no response to read
FetchFails(sl) ==
  /\ sync[sl].pc = "query"
  /\ sync[sl].owner = "client"
  /\ sync' = [sync EXCEPT ![sl] = [@ EXCEPT !.pc = "done", !.status = 0]]
  /\ UNCHANGED <<now, nextId, db, sockets, connectedClients, inbox, clientVars, callVars, uiVars, awaiting, authVars>>

\* a syncContent that reads the body whatever the status of the response
ClientSyncEndUnchecked(sl) ==
  /\ sync[sl].pc = "done"
  /\ sync[sl].owner = "client"
  /\ contentStore' = ApplySync(contentStore, ResponseBody(sync[sl]), sync[sl].incremental)
  /\ sync' = [sync EXCEPT ![sl] = IdleSlot]
  /\ UNCHANGED <<now, nextId, db, sockets, connectedClients, inbox,
                 authToken, clientSockets, socket, callVars, uiVars, awaiting, authVars>>

\* syncContent from the response on
ClientSyncEnd(sl) ==
  /\ sync[sl].pc = "done"
  /\ sync[sl].owner = "client"
  /\ contentStore' = IF sync[sl].status = 200
                     THEN ApplySync(contentStore, ResponseBody(sync[sl]),
                                    sync[sl].incremental)
                     ELSE contentStore
  /\ sync' = [sync EXCEPT ![sl] = IdleSlot]
  /\ UNCHANGED <<now, nextId, db, sockets, connectedClients, inbox,
                 authToken, clientSockets, socket, callVars, uiVars, awaiting, authVars>>

Next ==
  \/ \E token \in AdminTokens, k \in ServerKinds : AdminCreate(token, k)
  \/ \E token \in AdminTokens, k \in ServerKinds, i \in Ids, a \in {"null", "true", "false"} :
        AdminUpdate(token, k, i, a)
  \/ \E token \in AdminTokens, k \in ServerKinds, i \in Ids : AdminDelete(token, k, i)
  \/ \E token \in AdminTokens : AdminRefresh(token)
  \/ \E sl \in Slots : SyncQuery(sl)
  \/ \E sl \in Slots : SyncError(sl)
  \/ \E token \in RedeemTokens : RedeemInvite(token)
  \/ ConnectToServer
  \/ DisconnectFromServer
  \/ Logout
  \/ \E s \in SocketIds : ConnectionLost(s)
  \/ \E s \in SocketIds : Reconnect(s)
  \/ \E s \in SocketIds : Deliver(s)
  \/ \E incremental \in BOOLEAN : SyncContent(incremental)
  \/ \E sl \in Slots : FetchFails(sl)
  \/ \E sl \in Slots : ClientSyncEnd(sl)

Spec == InitAll /\ [][Next]_vars

\* PUT /<kind>/:id up to its `await db.query(UPDATE ... RETURNING *)`: db.query is one
\* HTTP request to the database per statement (the neon() wrapper), so the statement
\* commits there and the handler is resumed with the row later, after whatever else
\* the event loop handles first.  (AdminUpdate is the run of the same handler in which
\* nothing is handled in between.)
PutCommit(token, k, i, isActive) ==
  /\ AuthenticateAdmin(token)
  /\ now < MaxTime
  /\ Cardinality(awaiting) < MaxAwait
  /\ LET hit == {r \in db : r.kind = k /\ r.id = i /\ r.team_id = token.teamId}
     IN /\ hit # {}
        /\ LET old == CHOOSE r \in hit : TRUE
               act == IF isActive = "null" THEN old.is_active ELSE (isActive = "true")
               row == Row(k, i, token.teamId, now + 1, act)
           IN /\ db' = (db \ hit) \cup {row}
              /\ awaiting' = awaiting \cup {Event(k, "updated", i, <<row>>, token.teamId)}
  /\ now' = now + 1
  /\ UNCHANGED <<nextId, sockets, connectedClients, inbox, sync, clientVars, callVars, uiVars, authVars>>

\* the rest of the PUT handler: resumed with result.rows[0], it broadcasts `updated`
PutBroadcast(ev) ==
  /\ ev \in awaiting
  /\ RoomHasSpace(ev.origin)
  /\ inbox' = BroadcastToTeam(ev.origin, ev)
  /\ awaiting' = awaiting \ {ev}
  /\ UNCHANGED <<now, nextId, db, sockets, connectedClients, sync, clientVars, callVars, uiVars, authVars>>

\* a deployment whose objections table already holds a row
InitSeeded ==
  /\ InitClient /\ InitCall /\ InitUi
  /\ now = 0
  /\ nextId = 2
  /\ \E t \in Teams : db = {Row("objection", 1, t, 0, TRUE)}
  /\ sockets = [s \in SocketIds |-> ClosedSocket]
  /\ connectedClients = {}
  /\ inbox = [s \in SocketIds |-> <<>>]
  /\ sync = [sl \in Slots |-> IdleSlot]
  /\ awaiting = {}
  /\ invitation = "pending"
  /\ users = UserIds
  /\ redeems = [r \in RedeemIds |-> IdleRedeem]

PutEvents ==
  {Event("objection", "updated", i, <<Row("objection", i, t, at, act)>>, t) :
     i \in Ids, t \in Teams, at \in 1..MaxTime, act \in BOOLEAN}

NextOrder ==
  \/ \E token \in AdminTokens, i \in Ids, a \in {"null", "true", "false"} :
        PutCommit(token, "objection", i, a)
  \/ \E ev \in PutEvents : PutBroadcast(ev)
  \/ \E token \in RedeemTokens : RedeemInvite(token)
  \/ \E s \in SocketIds : Deliver(s)
  \/ \E sl \in Slots : SyncQuery(sl)
  \/ \E sl \in Slots : ClientSyncEnd(sl)

\* admin PUT requests handled concurrently, and the client that receives their events
SpecOrder == InitSeeded /\ [][NextOrder]_vars

\* verifyToken's request: the token goes into the Authorization header, and the
\* request has no body
VerifyRequest(token) == [authorization |-> token, body |-> NoToken]

\* POST /api/auth/verify: the status of the response.  The route reads req.body.token.
VerifyRoute(req) ==
  IF req.body = NoToken THEN 400
  ELSE IF ~JwtVerify(req.body) THEN 401
  ELSE IF req.body.userId \notin users THEN 401
  ELSE 200

\* app.whenReady of a process that has just started with a stored token:
\* isAuthenticated, verifyToken (clearAuth when the response is not ok), and
\* connectToServer when it reports the token valid
WhenReady ==
  /\ authToken # NoToken
  /\ socket = 0 /\ contentStore = EmptyStore
  /\ \A s \in SocketIds : clientSockets[s] = NoClientSocket
  /\ IF VerifyRoute(VerifyRequest(authToken)) = 200
     THEN /\ ConnectToServerWith(authToken)
          /\ UNCHANGED authToken
     ELSE /\ authToken' = NoToken
          /\ UNCHANGED <<socket, clientSockets, sockets, connectedClients, inbox>>
  /\ UNCHANGED <<now, nextId, db, sync, contentStore, callVars, uiVars, awaiting, authVars>>

\* the tokens electron-store can hold when the app starts
StoredTokens == {NoToken} \cup RedeemTokens \cup {Token("expired", 3, 1, "rep")}

\* the app starts with whatever token an earlier run has stored
InitStored ==
  /\ InitCall /\ InitUi
  /\ authToken \in StoredTokens
  /\ clientSockets = [s \in SocketIds |-> NoClientSocket]
  /\ socket = 0
  /\ contentStore = EmptyStore
  /\ now = 0
  /\ nextId = 1
  /\ db = {}
  /\ sockets = [s \in SocketIds |-> ClosedSocket]
  /\ connectedClients = {}
  /\ inbox = [s \in SocketIds |-> <<>>]
  /\ sync = [sl \in Slots |-> IdleSlot]
  /\ awaiting = {}
  /\ invitation \in {"pending", "redeemed"}
  /\ users \in {UserIds \ {InviteUser}, UserIds}
  /\ redeems = [r \in RedeemIds |-> IdleRedeem]

NextStart ==
  \/ WhenReady
  \/ \E token \in AdminTokens, k \in ServerKinds : AdminCreate(token, k)
  \/ \E token \in RedeemTokens : RedeemInvite(token)
  \/ ConnectToServer
  \/ Logout
  \/ \E s \in SocketIds : Deliver(s)
  \/ \E sl \in Slots : SyncQuery(sl)
  \/ \E sl \in Slots : ClientSyncEnd(sl)

\* the client from the start of the app
SpecStart == InitStored /\ [][NextStart]_vars

\* The client and the server with the scheduling of their event loops: a response that
\* has arrived is handled, an event that has arrived is handled, a query the server has
\* accepted is answered.  What the user, the admin and the network do is not forced.
SpecFair ==
  /\ InitAll /\ [][Next]_vars
  /\ WF_vars(\E sl \in Slots : ClientSyncEnd(sl))
  /\ WF_vars(\E s \in SocketIds : Deliver(s))
  /\ WF_vars(\E sl \in Slots : SyncQuery(sl))

----------------------------------------------------------------------------
(* Live call: the Gemini session and the objection detection of gemini.js  *)

\* Transcribed text is a sequence of fragments.  Each fragment stands for a piece of
\* text: one that a single pattern of analyzeForObjections matches, one that no pattern
\* matches ("ok"), or one that is only white space ("ws").
Fragments == {"no_capital", "expensive", "ask_wife", "think_about", "ok", "ws", ""}

\* String.prototype.trim() leaves something
\* message.serverContent?.inputTranscription?.text as a condition: the part is present
\* and its text is not the empty string
HasText(text) == text \notin {"none", ""}

\* a handler that tests the text without trimming it
NoTrim(text) == text # ""

\* text.trim() as a condition: "ws" stands for a text of white space only
TrimNonEmpty(text) == text \notin {"ws", ""}

\* objectionPatterns, in the order of the source; `phrase` is the fragment the regular
\* expression matches
ObjectionPatterns ==
  << [id |-> "price_no_capital", phrase |-> "no_capital", price |-> TRUE, authority |-> FALSE],
     [id |-> "sticker_shock", phrase |-> "expensive", price |-> FALSE, authority |-> FALSE],
     [id |-> "authority_spouse", phrase |-> "ask_wife", price |-> FALSE, authority |-> TRUE],
     [id |-> "think_about_it", phrase |-> "think_about", price |-> FALSE, authority |-> FALSE] >>

\* pattern.test(text)
Test(p, text) == \E i \in 1..Len(text) : text[i] = p.phrase

\* the list `detected` analyzeForObjections builds
Detected(text) == SelectSeq(ObjectionPatterns, LAMBDA p : Test(p, text))

DangerThreshold == 3

Message(channel, type, detected) == [channel |-> channel, type |-> type, detected |-> detected]

RECURSIVE IdsOf(_)
IdsOf(ps) == IF ps = <<>> THEN <<>> ELSE <<Head(ps).id>> \o IdsOf(Tail(ps))

\* analyzeForObjections(transcription): the messages it sends to the renderer
SentByAnalysis(transcription) ==
  IF transcription = <<>> THEN <<>>
  ELSE LET detected == Detected(transcription)
           hasPrice == \E i \in 1..Len(detected) : detected[i].price
           hasAuthority == \E i \in 1..Len(detected) : detected[i].authority
       IN (IF Len(detected) > 0
           THEN <<Message("objections-detected", "none", IdsOf(detected))>> ELSE <<>>)
          \o (IF Len(detected) >= DangerThreshold
              THEN <<Message("danger-alert", "three_objections", <<>>)>> ELSE <<>>)
          \o (IF hasPrice /\ hasAuthority
              THEN <<Message("danger-alert", "price_authority_combo", <<>>)>> ELSE <<>>)

\* ipc 'gemini-connect': initializeGeminiSession up to client.live.connect
GeminiConnect ==
  /\ IF isSessionActive
     THEN UNCHANGED <<sessions, rendererLog>>
     ELSE /\ \E g \in SessionIds :
               /\ sessions[g] = "none"
               /\ \A g2 \in SessionIds : sessions[g2] = "none" => g <= g2
               /\ sessions' = [sessions EXCEPT ![g] = "connecting"]
          /\ rendererLog' = <<>>
  /\ UNCHANGED <<isSessionActive, sessionRef, messageBuffer, currentTranscription,
                 serverVars, clientVars, uiVars>>

\* client.live.connect throws: the catch of initializeGeminiSession
ConnectFails(g) ==
  /\ sessions[g] = "connecting"
  /\ sessions' = [sessions EXCEPT ![g] = "none"]
  /\ UNCHANGED <<isSessionActive, sessionRef, messageBuffer, currentTranscription,
                 rendererLog, serverVars, clientVars, uiVars>>

\* callbacks.onopen, then connect resolves and geminiSessionRef.current is set
OnOpen(g) ==
  /\ sessions[g] = "connecting"
  /\ isSessionActive' = TRUE
  /\ sessionRef' = g
  /\ sessions' = [h \in SessionIds |->
                    IF h = g THEN "open"
                    ELSE IF h = sessionRef /\ sessions[h] = "closed" THEN "none"
                    ELSE sessions[h]]
  /\ UNCHANGED <<messageBuffer, currentTranscription, rendererLog, serverVars, clientVars, uiVars>>

\* the danger-alert messages among those analyzeForObjections sends
AnalyzeForObjections(transcription) ==
  SelectSeq(SentByAnalysis(transcription), LAMBDA m : m.channel = "danger-alert")

\* callbacks.onmessage for one message: its input transcription text, its output
\* transcription text ("none" when the part is absent) and its generationComplete flag.
\* Handled is what the callback computes from the two module variables: the
\* transcription and the suggestion buffer after the two text parts, and the alerts
\* analyzeForObjections sends at generationComplete.
Handled(input, output, generationComplete) ==
  LET transcription == IF HasText(input) /\ TrimNonEmpty(input)
                       THEN Append(currentTranscription, input)
                       ELSE currentTranscription
      buffer == IF HasText(output) /\ TrimNonEmpty(output)
                THEN Append(messageBuffer, output)
                ELSE messageBuffer
  IN [transcription |-> transcription,
      buffer |-> buffer,
      sent |-> IF generationComplete /\ buffer # <<>>
               THEN AnalyzeForObjections(transcription) ELSE <<>>]

OnMessage(g, input, output, generationComplete) ==
  /\ sessions[g] \in {"open", "closing"}
  /\ LET h == Handled(input, output, generationComplete)
     IN /\ Len(h.transcription) <= MaxText
        /\ Len(h.buffer) <= MaxBuf
        /\ Len(rendererLog \o h.sent) <= MaxLog
        /\ rendererLog' = rendererLog \o h.sent
        /\ currentTranscription' = IF generationComplete THEN <<>> ELSE h.transcription
        /\ messageBuffer' = IF generationComplete THEN <<>> ELSE h.buffer
  /\ UNCHANGED <<sessions, isSessionActive, sessionRef, serverVars, clientVars, uiVars>>

\* callbacks.onclose: the connection of session g has ended, from the far side or at
\* the end of the closing handshake that session.close() began
OnClose(g) ==
  /\ sessions[g] \in {"open", "closing"}
  /\ isSessionActive' = FALSE
  /\ sessions' = [sessions EXCEPT ![g] = IF sessionRef = g THEN "closed" ELSE "none"]
  /\ UNCHANGED <<sessionRef, messageBuffer, currentTranscription, rendererLog,
                 serverVars, clientVars, uiVars>>

\* the guard of ipc 'gemini-send-audio' and 'gemini-send-text' (and of
\* sendAudioToGemini): the input is refused with 'No active session'
SendRefused == sessionRef = 0 \/ ~isSessionActive

\* ipc 'gemini-disconnect': closeSession.  session.close() begins the closing handshake
\* of the connection; what the far side sent before it answers still arrives.
CloseSession ==
  /\ IF sessionRef # 0
     THEN /\ sessions' = [sessions EXCEPT ![sessionRef] =
                 IF @ = "open" THEN "closing" ELSE "none"]
          /\ sessionRef' = 0
     ELSE UNCHANGED <<sessions, sessionRef>>
  /\ isSessionActive' = FALSE
  /\ UNCHANGED <<messageBuffer, currentTranscription, rendererLog, serverVars, clientVars, uiVars>>

Outputs == {"none", "", "ws", "txt"}

NextCall ==
  \/ GeminiConnect
  \/ \E g \in SessionIds : ConnectFails(g)
  \/ \E g \in SessionIds : OnOpen(g)
  \/ \E g \in SessionIds, input \in Fragments \cup {"none"}, output \in Outputs,
        generationComplete \in BOOLEAN : OnMessage(g, input, output, generationComplete)
  \/ \E g \in SessionIds : OnClose(g)
  \/ CloseSession

SpecCall == InitAll /\ [][NextCall]_vars

----------------------------------------------------------------------------
(* Call analyzer of the renderer: app.js analyzeCall and fuzzyMatch         *)

\* The words a line of the textarea is made of: one word of each objection's
\* searchText, a short word (length <= 2) and a word no searchText contains.
Words == {"capital", "spouse", "think", "my", "xyz"}

\* word.length > 2; "" is the empty piece split(/\s+/) yields where a line begins or
\* ends with white space
LongWord(word) == word \notin {"my", ""}

\* this.objections.patterns.dangerous_combos
DangerousCombos == << [objections |-> {"price", "authority"}] >>

\* a line of the textarea is a sequence of words; <<>> is a blank line
Lines == UNION {[1..n -> Words] : n \in 0..MaxWords}

\* the lines as the textarea can hold them: white space may come before the first and
\* after the last word of a line, and split(/\s+/) then yields an empty piece there
RawLines ==
  {<<>>} \cup {lead \o line \o trail :
                 lead \in {<<>>, <<"">>}, trail \in {<<>>, <<"">>},
                 line \in UNION {[1..n -> Words] : n \in 1..MaxRawWords}}

\* l.trim() is empty
IsBlank(line) == \A i \in 1..Len(line) : line[i] = ""

\* the pieces of a line without the empty piece at its beginning / at its end
TrimStart(line) == IF line # <<>> /\ Head(line) = "" THEN Tail(line) ELSE line
TrimEnd(line) ==
  IF line # <<>> /\ line[Len(line)] = "" THEN SubSeq(line, 1, Len(line) - 1) ELSE line

\* textarea.value.trim().split('\n').filter(l => l.trim()): the lines that are not
\* blank; trim() has taken the white space before the first and after the last of them
SplitLines(input) ==
  LET lines == SelectSeq(input, LAMBDA l : ~IsBlank(l))
      n == Len(lines)
  IN [i \in 1..n |->
        LET a == IF i = 1 THEN TrimStart(lines[i]) ELSE lines[i]
        IN IF i = n THEN TrimEnd(a) ELSE a]

\* fuzzyMatch(input, target), as the number of input words it counts: the score is
\* this number divided by the number of input words
Hits(line, target) ==
  Cardinality({i \in 1..Len(line) : LongWord(line[i]) /\ line[i] \in target})

\* score > 0.3
AboveThreshold(line, target) == 10 * Hits(line, target) > 3 * Len(line)

\* matches[0] of a line: of the entries scoring above 0.3, the first with the highest
\* score (the sort is stable); 0 when no entry matches
BestMatch(line) ==
  LET ok == {i \in 1..Len(searchIndex) :
               searchIndex[i].type = "objection" /\ AboveThreshold(line, searchIndex[i].text)}
  IN IF ok = {} THEN 0
     ELSE CHOOSE i \in ok :
            \A j \in ok : \/ Hits(line, searchIndex[j].text) < Hits(line, searchIndex[i].text)
                          \/ (Hits(line, searchIndex[j].text) = Hits(line, searchIndex[i].text)
                              /\ i <= j)

\* matchedObjections: the matches of the lines that are not blank, in line order
RECURSIVE MatchedObjections(_)
MatchedObjections(lines) ==
  IF lines = <<>> THEN <<>>
  ELSE LET line == Head(lines)
           rest == MatchedObjections(Tail(lines))
       IN IF BestMatch(line) # 0
          THEN <<searchIndex[BestMatch(line)]>> \o rest
          ELSE rest

\* cat.includes(obj) || obj.includes(cat), for the category names of the data
CategoryMatches(cat, obj) == cat = obj

\* analyzeCall: what it renders for the textarea value `input`
AnalyzeInput(input) ==
  IF \A i \in 1..Len(input) : IsBlank(input[i])
  THEN [NoResults EXCEPT !.shown = "empty-state"]
  ELSE LET matched == MatchedObjections(SplitLines(input))
           count == Len(matched)
           categories == {matched[i].category : i \in 1..Len(matched)}
       IN [shown |-> "results",
           count |-> count,
           matched |-> [i \in 1..Len(matched) |-> matched[i].id],
           categories |-> categories,
           dangerAlert |-> \E c \in 1..Len(DangerousCombos) :
                              \A obj \in DangerousCombos[c].objections :
                                 \E cat \in categories : CategoryMatches(cat, obj),
           threeAlert |-> count >= DangerThreshold]

\* the user types one more line into the textarea
TypeLine(line) ==
  /\ Len(analyzerInput) < MaxLines
  /\ analyzerInput' = Append(analyzerInput, line)
  /\ UNCHANGED <<analyzerResults, searchIndex, serverVars, clientVars, callVars>>

\* the Analyze button: analyzeCall
AnalyzeCall ==
  /\ analyzerResults' = AnalyzeInput(analyzerInput)
  /\ UNCHANGED <<analyzerInput, searchIndex, serverVars, clientVars, callVars>>

NextAnalyzer ==
  \/ \E line \in Lines : TypeLine(line)
  \/ AnalyzeCall

SpecAnalyzer == InitAll /\ [][NextAnalyzer]_vars

\* analyzeCall on a textarea that already holds its text: one or two lines, with or
\* without white space around their words
InitMatch ==
  /\ InitServer /\ InitClient /\ InitCall
  /\ analyzerInput \in UNION {[1..n -> RawLines] : n \in 1..MaxRawLines}
  /\ analyzerResults = NoResults
  /\ searchIndex = SearchIndex

NextMatch == AnalyzeCall

SpecMatch == InitMatch /\ [][NextMatch]_vars

\* analyzeCall on a textarea of one or two lines, for objection data that lists the
\* objections in any order
InitRank ==
  /\ InitServer /\ InitClient /\ InitCall
  /\ analyzerInput \in UNION {[1..n -> Lines \ {<<>>}] : n \in 1..MaxRawLines}
  /\ analyzerResults = NoResults
  /\ searchIndex \in {[i \in 1..Len(SearchIndex) |-> SearchIndex[p[i]]] :
                         p \in Permutations(1..Len(SearchIndex))}

NextRank == AnalyzeCall

SpecRank == InitRank /\ [][NextRank]_vars

----------------------------------------------------------------------------
(* Claims about the sync server (checked under SpecServer) *)

\* the step in which the handler of slot sl runs its SELECTs and responds
Answers(sl) == sync[sl].pc = "query" /\ sync'[sl].pc = "done"

\* C5: an incremental sync (since given) returns every row of the requester's team
\* with updated_at > since, soft-deleted rows included.
C5_IncrementalReturnsTombstones ==
  [][\A sl \in Slots :
       (Answers(sl) /\ sync[sl].since # None) =>
          \A r \in db :
             (r.team_id = sync[sl].teamId /\ r.updated_at > sync[sl].since)
                => r \in Range(sync'[sl].content[r.kind])]_vars

\* C6: on both sync paths a full sync (no since / no lastSync) returns exactly the
\* active rows of the requester's team.
C6_FullSyncExactlyActive ==
  [][\A sl \in Slots :
       (Answers(sl) /\ sync[sl].since = None) =>
          \A k \in Kinds :
             Range(sync'[sl].content[k]) =
               {r \in db : r.kind = k /\ r.team_id = sync[sl].teamId /\ r.is_active}]_vars

\* C7: in every sync response, syncedAt >= updated_at of every row in the response.
C7_SyncedAtCoversRows ==
  \A sl \in Slots :
     (sync[sl].pc = "done" /\ sync[sl].status = 200) =>
        \A k \in Kinds : \A r \in Range(sync[sl].content[k]) :
           r.updated_at <= sync[sl].syncedAt

\* C8: a socket whose handshake token is absent or fails verification is not
\* connected, is in no room, is not in connectedClients, has been sent no event
\* and is served no sync request.
C8_RejectedNeverAdmitted ==
  \A s \in SocketIds :
     ~JwtVerify(sockets[s].token) =>
        /\ sockets[s].st # "connected"
        /\ sockets[s].rooms = {}
        /\ \A e \in connectedClients : e.socketId # s
        /\ inbox[s] = <<>>
        /\ \A sl \in Slots : sync[sl].sock # s

\* C8 witness: a handshake with an expired token claiming team t was rejected while
\* an admitted socket of team t has a broadcast event queued.
C8_Witness ==
  \E s, s2 \in SocketIds :
     /\ sockets[s].st = "rejected"
     /\ sockets[s].token.sig = "expired"
     /\ sockets[s2].st = "connected"
     /\ sockets[s2].teamId = sockets[s].token.teamId
     /\ \E i \in 1..Len(inbox[s2]) : inbox[s2][i].action = "created"

\* C9: every event queued for a socket was caused by a request of the team in the
\* socket's verified token (and carries a row of that team), and every sync response
\* holds only rows of the team in the requester's token.
C9_NoCrossTeam ==
  /\ \A s \in SocketIds : \A i \in 1..Len(inbox[s]) :
        /\ sockets[s].st = "connected"
        /\ JwtVerify(sockets[s].token)
        /\ inbox[s][i].origin = sockets[s].token.teamId
        /\ \A r \in Range(inbox[s][i].row) : r.team_id = sockets[s].token.teamId
  /\ \A sl \in Slots : \A k \in Kinds : \A r \in Range(sync[sl].content[k]) :
        r.team_id = sync[sl].token.teamId

\* C9 witness: sockets of two teams are connected, one team's mutation has been
\* broadcast (queued for its socket only), and a sync of the other team was answered
\* while the store holds a row of the first team.
C9_Witness ==
  \E s1, s2 \in SocketIds : \E sl \in Slots :
     /\ sockets[s1].st = "connected" /\ sockets[s2].st = "connected"
     /\ sockets[s1].teamId # sockets[s2].teamId
     /\ \E i \in 1..Len(inbox[s1]) : inbox[s1][i].action = "created"
     /\ inbox[s2] = <<>>
     /\ sync[sl].pc = "done" /\ sync[sl].status = 200
     /\ sync[sl].teamId = sockets[s2].teamId
     /\ \E r \in db : r.team_id = sockets[s1].teamId

\* C21: a created, updated or deleted event is queued for a socket only by a step
\* whose store write changed a record of the event's kind, id and team: a write that
\* matches no record of the team produces no broadcast.
C21_BroadcastOnlyAfterWrite ==
  [][\A s \in SocketIds :
       (Len(inbox'[s]) > Len(inbox[s]) /\ inbox'[s][Len(inbox'[s])].kind \in Kinds)
         => LET ev == inbox'[s][Len(inbox'[s])]
            IN \E r \in db' \ db :
                  r.kind = ev.kind /\ r.id = ev.id /\ r.team_id = ev.origin]_vars

\* C26: an invitation code is redeemed at most once: of the requests carrying the
\* code, at most one is answered with a token.
C26_RedeemedAtMostOnce ==
  Cardinality({r \in RedeemIds : redeems[r].answer = "token"}) <= 1

----------------------------------------------------------------------------
(* Claims about the client cache (checked under Spec) *)

\* the step in which client socket s handles a content event
DeliversContent(s) ==
  /\ clientSockets[s].st \in {"connecting", "connected"}
  /\ inbox[s] # <<>>
  /\ Head(inbox[s]).kind \in Kinds
  /\ inbox'[s] = Tail(inbox[s])
  /\ clientSockets' = clientSockets
  /\ contentStore' = ApplyEvent(contentStore, Head(inbox[s]))

\* the step in which syncContent applies a successful response
SyncSucceeds(sl) ==
  /\ sync[sl].pc = "done"
  /\ sync[sl].owner = "client"
  /\ sync[sl].status = 200
  /\ sync'[sl].pc = "idle"
  /\ contentStore' = ApplySync(contentStore, ResponseBody(sync[sl]), sync[sl].incremental)

\* the cached records of kind k with id i, in cache order
Cached(store, k, i) == SelectSeq(store[k], LAMBDA o : o.id = i)

\* C1: whenever the client handles a change event, handling the same event once more
\* leaves the cache exactly as the first delivery left it.
C1_EventApplyIdempotent ==
  [][\A s \in SocketIds :
       DeliversContent(s) =>
          ApplyEvent(contentStore', Head(inbox[s])) = contentStore']_vars

\* C2: merging is last-write-wins on updated_at: an event whose record is not newer
\* than the cached record with its id leaves the cache unchanged, and a sync record
\* that is not newer than the cached record with its id leaves that record as cached.
C2_LastWriteWins ==
  [][/\ \A s \in SocketIds :
          (/\ DeliversContent(s)
           /\ Head(inbox[s]).row # <<>>
           /\ LET r == Head(inbox[s]).row[1]
              IN \E i \in 1..Len(contentStore[r.kind]) :
                    /\ contentStore[r.kind][i].id = r.id
                    /\ r.updated_at <= contentStore[r.kind][i].updated_at)
          => contentStore' = contentStore
     /\ \A sl \in Slots :
          SyncSucceeds(sl) =>
             \A k \in Kinds : \A r \in Range(sync[sl].content[k]) :
                (\E i \in 1..Len(contentStore[k]) :
                    /\ contentStore[k][i].id = r.id
                    /\ r.updated_at <= contentStore[k][i].updated_at)
                => Cached(contentStore', k, r.id) = Cached(contentStore, k, r.id)]_vars

\* C3: contentStore.lastSync never decreases, and after a successful sync it is a
\* timestamp at least as large as the updated_at of every cached record.
C3_WatermarkMonotone ==
  [][/\ Truthy(contentStore.lastSync) =>
          /\ Truthy(contentStore'.lastSync)
          /\ contentStore'.lastSync.t >= contentStore.lastSync.t
     /\ \A sl \in Slots :
          SyncSucceeds(sl) =>
             /\ Truthy(contentStore'.lastSync)
             /\ \A k \in Kinds : \A o \in Range(contentStore'[k]) :
                   o.updated_at <= contentStore'.lastSync.t]_vars

\* C4: a cache built from empty by an incremental sync up to time T holds, for each of
\* the four kinds, exactly what one full sync at T returns (the case of a single page;
\* T is a time since which the store has not changed).
C4_FullEqualsIncrementalReplay ==
  [][\A sl \in Slots :
       (/\ SyncSucceeds(sl)
        /\ sync[sl].incremental
        /\ \A k \in Kinds : contentStore[k] = <<>>
        /\ \A r \in db : r.updated_at <= sync[sl].syncedAt)
       => \A k \in Kinds :
             contentStore'[k] = HttpSelect(k, sync[sl].teamId, None)]_vars

\* C22: an `updated` event for a record whose id is not in the client cache inserts
\* the record into the cache instead of being dropped.
C22_UpdateOfAbsentInserts ==
  [][\A s \in SocketIds :
       (/\ DeliversContent(s)
        /\ Head(inbox[s]).action = "updated"
        /\ Cached(contentStore, Head(inbox[s]).kind, Head(inbox[s]).id) = <<>>)
       => Cached(contentStore', Head(inbox[s]).kind, Head(inbox[s]).id)
            = Head(inbox[s]).row]_vars

\* C23: the client cache is discarded on disconnect: right after disconnectFromServer
\* or logout the cache (what getContent and the load-*-data handlers read) holds no
\* record.
C23_DisconnectDiscardsCache ==
  [][(DisconnectFromServer \/ Logout) => \A k \in Kinds : contentStore'[k] = <<>>]_vars

\* C27: the client holds at most one server socket at a time: at most one of the
\* socket objects connectToServer has created is connecting, connected or reconnecting.
C27_AtMostOneSocket ==
  Cardinality({s \in SocketIds : clientSockets[s].st \in
                 {"connecting", "connected", "disconnected"}}) <= 1

\* C29: every event the server broadcasts is applied by the client that receives it,
\* for every kind and action: after a `created` event the cache holds the record, after
\* an `updated` event for a cached record the cache holds the event's version of it and
\* no other, and after a `deleted` event the cache holds no record of that id.
C29_EveryEventApplied ==
  [][\A s \in SocketIds :
       DeliversContent(s) =>
         LET ev == Head(inbox[s])
             before == Cached(contentStore, ev.kind, ev.id)
             after == Cached(contentStore', ev.kind, ev.id)
         IN /\ ev.action = "created" => ev.row[1] \in Range(after)
            /\ (ev.action = "updated" /\ before # <<>>) => Range(after) = {ev.row[1]}
            /\ ev.action = "deleted" => after = <<>>]_vars

\* the server would accept the token: its signature verifies and its user is active
ServerAccepts(token) == JwtVerify(token) /\ token.userId \in users

\* C30: a client that starts with a stored token the server would accept keeps its
\* token and connects: app.whenReady neither clears the token nor skips the connection.
C30_AcceptedTokenKept ==
  [][(WhenReady /\ ServerAccepts(authToken))
       => (authToken' = authToken /\ socket' # 0)]_vars

----------------------------------------------------------------------------
(* Claims about the live call (checked under SpecCall) *)

\* C18: a sync request that fails (a status other than 200, a network error or an
\* unparseable body, or no token so that no request is sent) leaves the client cache
\* as it was: the four lists and lastSync, which is all getContent returns.
C18_FailedSyncKeepsCache ==
  [][/\ \A sl \in Slots :
          (ClientSyncEnd(sl) /\ sync[sl].status # 200) => contentStore' = contentStore
     /\ \A s \in SocketIds :
          (authToken = NoToken /\ Deliver(s) /\ Head(inbox[s]).kind \in {"socket", "refresh"})
            => (contentStore' = contentStore /\ sync' = sync)]_vars

\* C18: a sync request of the client has failed while the cache holds a row and the
\* client has synced before; syncContent is about to handle the failure
C18_Witness ==
  \E sl \in Slots :
    /\ sync[sl].pc = "done" /\ sync[sl].owner = "client" /\ sync[sl].status # 200
    /\ contentStore.objection # <<>>
    /\ contentStore.lastSync # JsNull

\* C20: when two mutations of one record are committed in the order m1 then m2, the
\* team's broadcast stream carries m1's event before m2's: a PUT handler never
\* broadcasts its row while the row of an earlier commit to the same record is still
\* to be broadcast.
C20_BroadcastInCommitOrder ==
  [][\A ev \in awaiting :
       PutBroadcast(ev) =>
         \A other \in awaiting :
            (other.kind = ev.kind /\ other.id = ev.id)
              => ev.row[1].updated_at <= other.row[1].updated_at]_vars

\* the client's socket is connected
Connected == socket # 0 /\ clientSockets[socket].st = "connected"

\* a sync request of the client has failed
SyncFailed ==
  \E sl \in Slots : sync[sl].pc = "done" /\ sync[sl].owner = "client" /\ sync[sl].status # 200

\* a sync request of the client is under way
SyncRequested == \E sl \in Slots : sync[sl].pc = "query" /\ sync[sl].owner = "client"

\* C19: a failed sync is retried: after a sync request of the connected client fails,
\* the client issues another sync request, unless it loses its connection first.
C19_FailedSyncRetried == (Connected /\ SyncFailed) ~> (SyncRequested \/ ~Connected)

\* the connect handler of client socket s runs and its syncContent call sends the
\* request of slot sl
ConnectSync(s, sl) ==
  /\ Deliver(s)
  /\ Head(inbox[s]).kind = "socket"
  /\ sync[sl].pc = "idle"
  /\ sync'[sl].pc = "query"

\* C17: when the client's socket connects or reconnects, the sync it starts is a full
\* one if the client has no watermark (it has not completed a sync: lastSync is still
\* null), and otherwise an incremental one whose `since` is the watermark it holds.
C17_ConnectSyncsFromWatermark ==
  [][\A s \in SocketIds, sl \in Slots :
       ConnectSync(s, sl) =>
         IF contentStore.lastSync = JsNull
         THEN ~sync'[sl].incremental /\ sync'[sl].since = None
         ELSE /\ sync'[sl].incremental
              /\ Truthy(contentStore.lastSync)
              /\ sync'[sl].since = contentStore.lastSync.t]_vars

\* the three_objections alerts sent since gemini-connect last started a session
ThresholdAlerts ==
  {i \in 1..Len(rendererLog) : rendererLog[i].type = "three_objections"}

\* C10: within one call session at most one threshold alert (danger-alert of type
\* three_objections) is emitted: once it has fired, further fragments and further
\* detections do not fire it again.
C10_OneThresholdAlert == Cardinality(ThresholdAlerts) <= 1

\* the price_authority_combo alerts sent since gemini-connect last started a session
ComboAlerts ==
  {i \in 1..Len(rendererLog) : rendererLog[i].type = "price_authority_combo"}

\* C11: within one call session the combo alert (danger-alert of type
\* price_authority_combo) fires at most once.
C11_ComboFiresOnce == Cardinality(ComboAlerts) <= 1

\* the identifiers detection would report for a transcription
DetectedIds(text) == {Detected(text)[i].id : i \in 1..Len(Detected(text))}

\* the fragments that are empty or hold white space only
BlankFragments == {"", "ws"}

\* C16: an empty or whitespace-only transcript fragment is discarded: in every state,
\* a message that carries one is handled exactly as the same message without the
\* fragment (the same transcription, the same buffer, the same alerts sent); analysis
\* of an empty transcription sends nothing; and analyzeCall on an input of blank lines
\* only finds no objection and raises neither alert.
C16_BlankFragmentDiscarded ==
  /\ \A blank \in BlankFragments, output \in Outputs, generationComplete \in BOOLEAN :
       Handled(blank, output, generationComplete)
         = Handled("none", output, generationComplete)
  /\ SentByAnalysis(<<>>) = <<>>
  /\ \A n \in 0..MaxLines :
       LET results == AnalyzeInput([i \in 1..n |-> <<>>])
       IN /\ results.count = 0 /\ results.matched = <<>>
          /\ ~results.dangerAlert /\ ~results.threeAlert

\* C16: an open session holds accumulated transcription with a detected objection and
\* suggestion text, which a blank fragment handled now must leave as they are
C16_Witness ==
  /\ sessionRef # 0 /\ sessions[sessionRef] = "open"
  /\ Detected(currentTranscription) # <<>> /\ messageBuffer # <<>>
  /\ \E blank \in BlankFragments :
       Handled(blank, "none", FALSE).transcription = currentTranscription

\* C15: a closed call session is final: input for it is refused, and once no session
\* is open no step changes the transcription or the suggestion buffer or sends an
\* alert to the renderer.
C15_ClosedIsTerminal ==
  [][/\ ((sessionRef # 0 /\ sessions[sessionRef] # "open") => SendRefused)
     /\ (\A g \in SessionIds : sessions[g] # "open") =>
          /\ currentTranscription' = currentTranscription
          /\ messageBuffer' = messageBuffer
          /\ (rendererLog' = rendererLog \/ rendererLog' = <<>>)]_vars

\* C13: while a session stays open the detected objections only grow: what has been
\* detected from the fragments received so far is still detected after the next step.
C13_DetectionAdditive ==
  [][(\E g \in SessionIds : sessions[g] = "open" /\ sessions'[g] = "open")
       => DetectedIds(currentTranscription) \subseteq DetectedIds(currentTranscription')]_vars

\* C14: when no call session is open, nothing of a session is left: the transcription
\* buffer and the suggestion buffer are empty.
C14_CloseDiscardsState ==
  (\A g \in SessionIds : sessions[g] # "open")
     => (currentTranscription = <<>> /\ messageBuffer = <<>>)

\* C28: at most one Gemini live session exists at a time: never are two sessions
\* connecting or open together.
C28_AtMostOneSession ==
  Cardinality({g \in SessionIds : sessions[g] \in {"connecting", "open"}}) <= 1

----------------------------------------------------------------------------
(* Claims about the call analyzer (checked under SpecAnalyzer) *)

\* C12: the three-objection alert is shown only when at least three distinct
\* objections were matched: lines matching the same objection count once.
C12_ThresholdNeedsThreeDistinct ==
  analyzerResults.threeAlert =>
     Cardinality({analyzerResults.matched[i] : i \in 1..Len(analyzerResults.matched)})
        >= DangerThreshold

\* the words of a fragment: its pieces that are not empty
FragmentWords(line) == SelectSeq(line, LAMBDA w : w # "")

\* the fragment's score against an entry exceeds 0.3, the score being the number of
\* its words longer than 2 characters that occur in the entry's text divided by the
\* number of its words
ScoreExceeds(line, entry) ==
  LET words == FragmentWords(line)
  IN 10 * Cardinality({i \in 1..Len(words) : LongWord(words[i]) /\ words[i] \in entry.text})
       > 3 * Len(words)

\* C24: a fragment is matched to an objection exactly if its score against some
\* objection (words longer than 2 characters found in the objection's text, divided by
\* the number of words of the fragment) is strictly greater than 0.3: the analysis
\* counts exactly the non-blank lines with such a score.
C24_ScoreIsWordFraction ==
  analyzerResults.shown = "results" =>
    analyzerResults.count =
      Cardinality({i \in 1..Len(analyzerInput) :
                     /\ ~IsBlank(analyzerInput[i])
                     /\ \E e \in 1..Len(searchIndex) :
                          ScoreExceeds(analyzerInput[i], searchIndex[e])})

\* the entry the tie-break names for a fragment: of the entries whose score exceeds
\* 0.3, one with the highest score and, among those, the lowest rank
Selected(line) ==
  LET ok == {e \in Range(searchIndex) : AboveThreshold(line, e.text)}
  IN {e \in ok : \A f \in ok :
        \/ Hits(line, f.text) < Hits(line, e.text)
        \/ (Hits(line, f.text) = Hits(line, e.text) /\ e.rank <= f.rank)}

\* C25: for every fragment, the objection reported is the one with the highest score
\* and, among equal highest scores, the lowest rank, whatever the order of the
\* objections in the loaded data.
C25_TieBreakByRank ==
  analyzerResults.shown = "results" =>
    LET lines == SelectSeq(analyzerInput, LAMBDA l : Selected(l) # {})
    IN /\ Len(analyzerResults.matched) = Len(lines)
       /\ \A i \in 1..Len(lines) :
            \E e \in Selected(lines[i]) : analyzerResults.matched[i] = e.id

====
